---- MODULE Spec2Model ----
(***************************************************************************)
(* Model of collector/generic_query.go: the GenericExporter, which fetches *)
(* a JSON document, flattens it into a registry of gauges and emits the    *)
(* registry to a prometheus collection channel.                            *)
(*                                                                         *)
(* Strings are TLA+ strings; documents are decoded from their JSON text by *)
(* Unmarshal, and flattened by extractJSON / extractJSONArray as the       *)
(* source does it.                                                         *)
(***************************************************************************)
EXTENDS Integers, Sequences, FiniteSets, TLC

(***************************************************************************)
(* Bounds of the model.                                                    *)
(***************************************************************************)
\* Number of goroutines that call Collect.
NumCollectors == 2
\* Number of goroutines that call Describe.
NumDescribers == 1
\* Collect is not started once totalScrapes has reached this value.
MaxScrapes == 2

Collectors == 1..NumCollectors
Describers == (NumCollectors + 1)..(NumCollectors + NumDescribers)

(***************************************************************************)
(* Strings: strings.ToLower, strconv.Itoa and the regular expression       *)
(* "^_(.+)" of extractJSON.                                                *)
(***************************************************************************)
DigitChars == "0123456789"

CharAt(s, i) == SubSeq(s, i, i)

IsIn(ch, chars) == \E i \in 1..Len(chars) : CharAt(chars, i) = ch

\* unicode.ToLower on the ASCII letters.
LowerChar(ch) ==
  CASE ch = "A" -> "a" [] ch = "B" -> "b" [] ch = "C" -> "c" [] ch = "D" -> "d"
    [] ch = "E" -> "e" [] ch = "F" -> "f" [] ch = "G" -> "g" [] ch = "H" -> "h"
    [] ch = "I" -> "i" [] ch = "J" -> "j" [] ch = "K" -> "k" [] ch = "L" -> "l"
    [] ch = "M" -> "m" [] ch = "N" -> "n" [] ch = "O" -> "o" [] ch = "P" -> "p"
    [] ch = "Q" -> "q" [] ch = "R" -> "r" [] ch = "S" -> "s" [] ch = "T" -> "t"
    [] ch = "U" -> "u" [] ch = "V" -> "v" [] ch = "W" -> "w" [] ch = "X" -> "x"
    [] ch = "Y" -> "y" [] ch = "Z" -> "z"
    [] OTHER -> ch

RECURSIVE ToLower(_)
ToLower(s) == IF s = "" THEN "" ELSE LowerChar(Head(s)) \o ToLower(Tail(s))

RECURSIVE Itoa(_)
Itoa(n) ==
  IF n < 10 THEN CharAt(DigitChars, n + 1)
  ELSE Itoa(n \div 10) \o CharAt(DigitChars, (n % 10) + 1)

\* fix_double_underscore.ReplaceAllString(s, "$1") for the pattern "^_(.+)":
\* the match needs "_" at the start followed by at least one character that
\* is not a newline, and it is replaced by what follows the "_".
fix_double_underscore(s) ==
  IF Len(s) >= 2 /\ Head(s) = "_" /\ CharAt(s, 2) # "\n" THEN Tail(s) ELSE s

(***************************************************************************)
(* Decoded JSON values (interface{} after json.Unmarshal): a record with a *)
(* kind, and the payload of that kind.                                     *)
(***************************************************************************)
JNull == [kind |-> "null"]
JNum(n) == [kind |-> "num", n |-> n]
JBool(b) == [kind |-> "bool", b |-> b]
JStr(s) == [kind |-> "str", s |-> s]
JObj(m) == [kind |-> "obj", m |-> m]
JArr(a) == [kind |-> "arr", a |-> a]

EmptyMap == [k \in {} |-> JNull]

\* m[k] = v in a Go map: an existing key is overwritten.
MapPut(m, k, v) == [x \in DOMAIN m \cup {k} |-> IF x = k THEN v ELSE m[x]]

(***************************************************************************)
(* json.Unmarshal: a recursive-descent decoder of the JSON text.  Each     *)
(* Parse operator takes the text and a position and returns                *)
(* [ok, val, pos]: whether a value was decoded, the value, and the         *)
(* position after it.  Numbers are non-negative integers.                  *)
(***************************************************************************)
Fail == [ok |-> FALSE, val |-> JNull, pos |-> 0]
Ok(v, p) == [ok |-> TRUE, val |-> v, pos |-> p]

RECURSIVE SkipSpace(_, _)
SkipSpace(s, i) == IF i <= Len(s) /\ CharAt(s, i) = " " THEN SkipSpace(s, i + 1) ELSE i

HasAt(s, i, lit) == i + Len(lit) - 1 <= Len(s) /\ SubSeq(s, i, i + Len(lit) - 1) = lit

\* The digits of a number starting at i, most significant first.
RECURSIVE ParseDigits(_, _, _)
ParseDigits(s, i, acc) ==
  IF i <= Len(s) /\ IsIn(CharAt(s, i), DigitChars)
  THEN ParseDigits(s, i + 1,
         acc * 10 + ((CHOOSE d \in 1..10 : CharAt(DigitChars, d) = CharAt(s, i)) - 1))
  ELSE Ok(JNum(acc), i)

\* The characters of a string literal whose opening quote is before i; \" and
\* \\ are the escapes.
RECURSIVE ParseChars(_, _, _)
ParseChars(s, i, acc) ==
  IF i > Len(s) THEN Fail
  ELSE IF CharAt(s, i) = "\"" THEN Ok(JStr(acc), i + 1)
  ELSE IF CharAt(s, i) = "\\"
       THEN IF i + 1 <= Len(s) /\ CharAt(s, i + 1) \in {"\"", "\\"}
            THEN ParseChars(s, i + 2, acc \o CharAt(s, i + 1))
            ELSE Fail
  ELSE ParseChars(s, i + 1, acc \o CharAt(s, i))

RECURSIVE ParseValue(_, _)
RECURSIVE ParseMembers(_, _, _)
RECURSIVE ParseElements(_, _, _)

\* The members of an object after its "{" (or after a ","), added to m.
ParseMembers(s, i0, m) ==
  LET i == SkipSpace(s, i0) IN
  IF ~HasAt(s, i, "\"") THEN Fail
  ELSE LET k == ParseChars(s, i + 1, "") IN
       IF ~k.ok THEN Fail
       ELSE LET c == SkipSpace(s, k.pos) IN
            IF ~HasAt(s, c, ":") THEN Fail
            ELSE LET v == ParseValue(s, c + 1) IN
                 IF ~v.ok THEN Fail
                 ELSE LET e == SkipSpace(s, v.pos)
                          m2 == MapPut(m, k.val.s, v.val)
                      IN IF HasAt(s, e, "}") THEN Ok(JObj(m2), e + 1)
                         ELSE IF HasAt(s, e, ",") THEN ParseMembers(s, e + 1, m2)
                         ELSE Fail

\* The elements of an array after its "[" (or after a ","), appended to a.
ParseElements(s, i0, a) ==
  LET v == ParseValue(s, i0) IN
  IF ~v.ok THEN Fail
  ELSE LET e == SkipSpace(s, v.pos)
           a2 == Append(a, v.val)
       IN IF HasAt(s, e, "]") THEN Ok(JArr(a2), e + 1)
          ELSE IF HasAt(s, e, ",") THEN ParseElements(s, e + 1, a2)
          ELSE Fail

ParseValue(s, i0) ==
  LET i == SkipSpace(s, i0) IN
  IF i > Len(s) THEN Fail
  ELSE IF HasAt(s, i, "null") THEN Ok(JNull, i + 4)
  ELSE IF HasAt(s, i, "true") THEN Ok(JBool(TRUE), i + 4)
  ELSE IF HasAt(s, i, "false") THEN Ok(JBool(FALSE), i + 5)
  ELSE IF IsIn(CharAt(s, i), DigitChars) THEN ParseDigits(s, i, 0)
  ELSE IF HasAt(s, i, "\"") THEN ParseChars(s, i + 1, "")
  ELSE IF HasAt(s, i, "{")
       THEN IF HasAt(s, SkipSpace(s, i + 1), "}")
            THEN Ok(JObj(EmptyMap), SkipSpace(s, i + 1) + 1)
            ELSE ParseMembers(s, i + 1, EmptyMap)
  ELSE IF HasAt(s, i, "[")
       THEN IF HasAt(s, SkipSpace(s, i + 1), "]")
            THEN Ok(JArr(<<>>), SkipSpace(s, i + 1) + 1)
            ELSE ParseElements(s, i + 1, <<>>)
  ELSE Fail

\* json.Unmarshal(text, &m) for m of type map[string]interface{}: the text
\* must be one JSON value and nothing else, and the value an object or null
\* (null leaves the map nil, which ranges as the empty map).
Unmarshal(text) ==
  LET v == ParseValue(text, 1) IN
  IF ~v.ok \/ SkipSpace(text, v.pos) # Len(text) + 1 THEN [ok |-> FALSE, val |-> EmptyMap]
  ELSE IF v.val.kind = "obj" THEN [ok |-> TRUE, val |-> v.val.m]
  ELSE IF v.val.kind = "null" THEN [ok |-> TRUE, val |-> EmptyMap]
  ELSE [ok |-> FALSE, val |-> EmptyMap]

(***************************************************************************)
(* The flattening walker.  extractJSON and extractJSONArray call addGauge  *)
(* once per numeric or boolean leaf; a call is recorded as                 *)
(* [name, value, path], path being the keys and indices that lead to the   *)
(* leaf.  Go ranges over a map in an unspecified order, so extractJSON     *)
(* yields the SET of call sequences it can make, one per iteration order.  *)
(***************************************************************************)
Call(name, value, path) == [name |-> name, value |-> value, path |-> path]

RECURSIVE extractJSON(_, _, _)
RECURSIVE rangeMap(_, _, _, _)
RECURSIVE extractJSONArray(_, _, _)
RECURSIVE rangeArray(_, _, _, _)
RECURSIVE dispatch(_, _, _)

\* stringCase with the prefix dropped when the decoded object is flattened.
stringCaseNoPrefix(newMetric, path, vv) ==
  IF Len(vv) > 2 /\ Head(vv) = "{"
  THEN LET stats == Unmarshal(vv) IN
       IF stats.ok THEN extractJSON("", path, stats.val) ELSE {<<>>}
  ELSE {<<>>}

\* The string case of the type switch: a string longer than 2 that starts
\* with "{" is decoded, and flattened under the same prefix when it decodes.
stringCase(newMetric, path, vv) ==
  IF Len(vv) > 2 /\ Head(vv) = "{"
  THEN LET stats == Unmarshal(vv) IN
       IF stats.ok THEN extractJSON(newMetric, path, stats.val) ELSE {<<>>}
  ELSE {<<>>}

\* boolCase with no gauge for false.
boolCaseTrueOnly(newMetric, path, vv) ==
  IF vv THEN {<<Call(newMetric, 1, path)>>} ELSE {<<>>}

\* The bool case: true is 1, false is 0.
boolCase(newMetric, path, vv) ==
  IF vv THEN {<<Call(newMetric, 1, path)>>} ELSE {<<Call(newMetric, 0, path)>>}

\* switch vv := v.(type), the same in extractJSON and extractJSONArray.
dispatch(newMetric, path, v) ==
  CASE v.kind = "str" -> stringCase(newMetric, path, v.s)
    [] v.kind = "num" -> {<<Call(newMetric, v.n, path)>>}
    [] v.kind = "bool" -> boolCase(newMetric, path, v.b)
    [] v.kind = "obj" -> extractJSON(newMetric, path, v.m)
    [] v.kind = "arr" -> extractJSONArray(newMetric, path, v.a)
    [] OTHER -> {<<>>}

\* newMetric of extractJSON for key k.
keyMetric(metric, k) ==
  IF Len(metric) > 0 THEN fix_double_underscore(metric \o "_" \o k) ELSE k

\* newMetric of extractJSONArray for the 0-based index k.
indexMetric(metric, k) ==
  IF Len(metric) > 0 THEN metric \o "_" \o Itoa(k) ELSE Itoa(k)

\* rangeMap leaving the loop after the first key it visits.
rangeMapFirstKeyOnly(metric, path, jsonInt, keys) ==
  IF keys = {} THEN {<<>>}
  ELSE UNION { dispatch(keyMetric(metric, k), Append(path, k), jsonInt[k]) : k \in keys }

\* for k, v := range jsonInt, over the keys not visited yet, in any order.
rangeMap(metric, path, jsonInt, keys) ==
  IF keys = {} THEN {<<>>}
  ELSE UNION { { w1 \o w2 :
                   w1 \in dispatch(keyMetric(metric, k), Append(path, k), jsonInt[k]),
                   w2 \in rangeMap(metric, path, jsonInt, keys \ {k}) }
               : k \in keys }

extractJSON(metric, path, jsonInt) == rangeMap(metric, path, jsonInt, DOMAIN jsonInt)

\* for k, v := range jsonInt, from the 1-based position i on, in order.
rangeArray(metric, path, jsonInt, i) ==
  IF i > Len(jsonInt) THEN {<<>>}
  ELSE { w1 \o w2 :
           w1 \in dispatch(indexMetric(metric, i - 1), Append(path, Itoa(i - 1)), jsonInt[i]),
           w2 \in rangeArray(metric, path, jsonInt, i + 1) }

extractJSONArray(metric, path, jsonInt) == rangeArray(metric, path, jsonInt, 1)

\* addGauge adding the value to the gauge the name already has.
addGaugeAccumulates(g, name, value) ==
  MapPut(g, ToLower(name),
         IF ToLower(name) \in DOMAIN g THEN g[ToLower(name)] + value ELSE value)

\* addGauge on the map g: the name is lowercased and its entry replaced by a
\* new gauge holding value.
addGauge(g, name, value) == MapPut(g, ToLower(name), value)

(***************************************************************************)
(* The inputs: what the HTTP endpoint can answer.                          *)
(***************************************************************************)
\* Response bodies that decode as the root mapping.
Documents ==
  { "{\"a\":1}",
    "{\"A\":1,\"a\":2}",
    "{\"_shards\":{\"total\":3,\"ok\":false},\"a\":1}",
    "{\"_a\":[1,true]}",
    "{\"a\":\"{\\\"b\\\": 5}\"}",
    "{\"s\":\"abc\",\"a\":[\"{\\\"b\\\":5}\",\"{bad\",\"{}\",null,{\"c\":[3]}]}",
    "null" }

\* Response bodies that json.Unmarshal rejects for map[string]interface{}.
Garbage == { "[1]", "{\"a\":1" }

Bodies == Documents \cup Garbage

\* A response: its body, and whether reading the body fails.
Responses ==
  [readErr : {FALSE}, body : Bodies] \cup [readErr : {TRUE}, body : {""}]

NoResponse == [readErr |-> FALSE, body |-> ""]

(***************************************************************************)
(* The state of one GenericExporter and of the goroutines calling it.      *)
(***************************************************************************)
VARIABLES
  gauges,             \* c.gauges: metric name -> value of its gauge
  up,                 \* c.up
  totalScrapes,       \* c.totalScrapes
  jsonParseFailures,  \* c.jsonParseFailures
  mutex,              \* c.mutex: 0 when unlocked, else the goroutine holding it
  pc,                 \* where each goroutine is in Collect or Describe
  resp,               \* Collect's resp / body
  allStats,           \* Collect's allStats
  pending,            \* Collect: the addGauge calls extractJSON has yet to make
  ch,                 \* Collect: the metrics sent on ch in this call
  entry,              \* Collect: the exporter's state when the call took the lock
  outcome,            \* Collect: how far the call's scrape got
  overlap,            \* Describe: a map write happened during the call's range
  crashed,            \* the runtime has aborted the process
  lastProduced        \* name -> values produced for it by the last successful
                      \* scrape whose document had it

vars == <<gauges, up, totalScrapes, jsonParseFailures, mutex, pc, resp, allStats,
          pending, ch, entry, outcome, overlap, crashed, lastProduced>>

exporter == <<gauges, up, totalScrapes, jsonParseFailures>>
locals == <<resp, allStats, pending, ch, entry, outcome>>
describe == <<overlap>>

NoGauges == [n \in {} |-> 0]

Snapshot == [gauges |-> gauges, up |-> up, totalScrapes |-> totalScrapes,
             jsonParseFailures |-> jsonParseFailures]

NoEntry == [gauges |-> NoGauges, up |-> 0, totalScrapes |-> 0, jsonParseFailures |-> 0]

\* NewGenericQuery: an empty map, and a gauge and two counters at 0.
Init ==
  /\ gauges = NoGauges
  /\ up = 0
  /\ totalScrapes = 0
  /\ jsonParseFailures = 0
  /\ mutex = 0
  /\ pc = [p \in Collectors \cup Describers |-> "idle"]
  /\ resp = [c \in Collectors |-> NoResponse]
  /\ allStats = [c \in Collectors |-> EmptyMap]
  /\ pending = [c \in Collectors |-> <<>>]
  /\ ch = [c \in Collectors |-> {}]
  /\ entry = [c \in Collectors |-> NoEntry]
  /\ outcome = [c \in Collectors |-> "none"]
  /\ overlap = [d \in Describers |-> FALSE]
  /\ crashed = FALSE
  /\ lastProduced = [n \in {} |-> {}]

\* A metric sent on the collection channel.
Fixed(name, value) == [fixed |-> TRUE, name |-> name, value |-> value]
Gauge(name, value) == [fixed |-> FALSE, name |-> name, value |-> value]

(***************************************************************************)
(* Collect, step by step.                                                  *)
(***************************************************************************)
\* CollectLock that does not wait for the mutex to be free.
CollectLockNoWait(c) ==
  /\ ~crashed
  /\ pc[c] = "idle"
  /\ totalScrapes < MaxScrapes
  /\ mutex' = c
  /\ pc' = [pc EXCEPT ![c] = "get"]
  /\ entry' = [entry EXCEPT ![c] = Snapshot]
  /\ UNCHANGED <<exporter, resp, allStats, pending, ch, outcome, describe, crashed,
                 lastProduced>>

\* c.mutex.Lock()
CollectLock(c) ==
  /\ ~crashed
  /\ pc[c] = "idle"
  /\ totalScrapes < MaxScrapes
  /\ mutex = 0
  /\ mutex' = c
  /\ pc' = [pc EXCEPT ![c] = "get"]
  /\ entry' = [entry EXCEPT ![c] = Snapshot]
  /\ UNCHANGED <<exporter, resp, allStats, pending, ch, outcome, describe, crashed,
                 lastProduced>>

\* CollectGetError that leaves up as it was.
CollectGetErrorKeepsUp(c) ==
  /\ ~crashed
  /\ pc[c] = "get"
  /\ totalScrapes' = totalScrapes + 1
  /\ outcome' = [outcome EXCEPT ![c] = "transport"]
  /\ pc' = [pc EXCEPT ![c] = "deferred"]
  /\ UNCHANGED <<gauges, up, jsonParseFailures, mutex, resp, allStats, pending, ch, entry,
                 describe, crashed, lastProduced>>

\* c.totalScrapes.Inc(); c.client.Get fails: c.up.Set(0); return
CollectGetError(c) ==
  /\ ~crashed
  /\ pc[c] = "get"
  /\ totalScrapes' = totalScrapes + 1
  /\ up' = 0
  /\ outcome' = [outcome EXCEPT ![c] = "transport"]
  /\ pc' = [pc EXCEPT ![c] = "deferred"]
  /\ UNCHANGED <<gauges, jsonParseFailures, mutex, resp, allStats, pending, ch, entry,
                 describe, crashed, lastProduced>>

\* c.totalScrapes.Inc(); c.client.Get answers with a response
CollectGetOk(c) ==
  /\ ~crashed
  /\ pc[c] = "get"
  /\ totalScrapes' = totalScrapes + 1
  /\ \E r \in Responses : resp' = [resp EXCEPT ![c] = r]
  /\ pc' = [pc EXCEPT ![c] = "read"]
  /\ UNCHANGED <<gauges, up, jsonParseFailures, mutex, allStats, pending, ch, entry,
                 outcome, describe, crashed, lastProduced>>

\* CollectReadError that empties the registry.
CollectReadErrorResets(c) ==
  /\ ~crashed
  /\ pc[c] = "read"
  /\ resp[c].readErr
  /\ up' = 0
  /\ gauges' = NoGauges
  /\ outcome' = [outcome EXCEPT ![c] = "read"]
  /\ pc' = [pc EXCEPT ![c] = "deferred"]
  /\ UNCHANGED <<totalScrapes, jsonParseFailures, mutex, resp, allStats,
                 pending, ch, entry, describe, crashed, lastProduced>>

\* ioutil.ReadAll fails: c.up.Set(0); return
CollectReadError(c) ==
  /\ ~crashed
  /\ pc[c] = "read"
  /\ resp[c].readErr
  /\ up' = 0
  /\ outcome' = [outcome EXCEPT ![c] = "read"]
  /\ pc' = [pc EXCEPT ![c] = "deferred"]
  /\ UNCHANGED <<gauges, totalScrapes, jsonParseFailures, mutex, resp, allStats,
                 pending, ch, entry, describe, crashed, lastProduced>>

\* ioutil.ReadAll succeeds: c.up.Set(1)
CollectReadOk(c) ==
  /\ ~crashed
  /\ pc[c] = "read"
  /\ ~resp[c].readErr
  /\ up' = 1
  /\ pc' = [pc EXCEPT ![c] = "unmarshal"]
  /\ UNCHANGED <<gauges, totalScrapes, jsonParseFailures, mutex, resp, allStats,
                 pending, ch, entry, outcome, describe, crashed, lastProduced>>

\* json.Unmarshal(body, &allStats) fails: return
CollectUnmarshalError(c) ==
  /\ ~crashed
  /\ pc[c] = "unmarshal"
  /\ ~Unmarshal(resp[c].body).ok
  /\ outcome' = [outcome EXCEPT ![c] = "json"]
  /\ pc' = [pc EXCEPT ![c] = "deferred"]
  /\ UNCHANGED <<exporter, mutex, resp, allStats, pending, ch, entry, describe,
                 crashed, lastProduced>>

\* The values each name gets from the calls of one traversal.
Produced(w) ==
  LET names == [i \in DOMAIN w |-> ToLower(w[i].name)] IN
  [n \in {names[i] : i \in DOMAIN w} |-> {w[i].value : i \in {j \in DOMAIN w : names[j] = n}}]

\* json.Unmarshal succeeds; c.extractJSON("", allStats) starts, in one of the
\* iteration orders of the maps of the document.
CollectUnmarshalOk(c) ==
  /\ ~crashed
  /\ pc[c] = "unmarshal"
  /\ LET stats == Unmarshal(resp[c].body) IN
     /\ stats.ok
     /\ allStats' = [allStats EXCEPT ![c] = stats.val]
     /\ \E w \in extractJSON("", <<>>, stats.val) :
          /\ pending' = [pending EXCEPT ![c] = w]
          /\ LET own == Produced(w) IN
             lastProduced' = [n \in DOMAIN lastProduced \cup DOMAIN own |->
                                IF n \in DOMAIN own THEN own[n] ELSE lastProduced[n]]
  /\ outcome' = [outcome EXCEPT ![c] = "ok"]
  /\ pc' = [pc EXCEPT ![c] = "extract"]
  /\ UNCHANGED <<exporter, mutex, resp, ch, entry, describe, crashed>>

\* The next addGauge call of the traversal.  A Describe that is ranging over
\* the map meanwhile races with the write.
CollectAddGauge(c) ==
  /\ ~crashed
  /\ pc[c] = "extract"
  /\ pending[c] # <<>>
  /\ gauges' = addGauge(gauges, Head(pending[c]).name, Head(pending[c]).value)
  /\ pending' = [pending EXCEPT ![c] = Tail(pending[c])]
  /\ overlap' = [d \in Describers |-> overlap[d] \/ pc[d] = "range"]
  /\ UNCHANGED <<up, totalScrapes, jsonParseFailures, mutex, pc, resp, allStats, ch,
                 entry, outcome, crashed, lastProduced>>

\* for _, g := range c.gauges { g.Collect(ch) }
CollectReport(c) ==
  /\ ~crashed
  /\ pc[c] = "extract"
  /\ pending[c] = <<>>
  /\ ch' = [ch EXCEPT ![c] = ch[c] \cup {Gauge(n, gauges[n]) : n \in DOMAIN gauges}]
  /\ pc' = [pc EXCEPT ![c] = "deferred"]
  /\ UNCHANGED <<exporter, mutex, resp, allStats, pending, entry, outcome, describe,
                 crashed, lastProduced>>

\* The deferred function: ch <- c.up; ch <- c.totalScrapes; ch <- c.jsonParseFailures
CollectDeferred(c) ==
  /\ ~crashed
  /\ pc[c] = "deferred"
  /\ ch' = [ch EXCEPT ![c] = ch[c] \cup { Fixed("up", up),
                                          Fixed("total_scrapes", totalScrapes),
                                          Fixed("json_parse_failures", jsonParseFailures) }]
  /\ pc' = [pc EXCEPT ![c] = "unlock"]
  /\ UNCHANGED <<exporter, mutex, resp, allStats, pending, entry, outcome, describe,
                 crashed, lastProduced>>

\* The deferred c.mutex.Unlock(); Collect returns and its locals are gone.
CollectUnlock(c) ==
  /\ ~crashed
  /\ pc[c] = "unlock"
  /\ mutex' = 0
  /\ pc' = [pc EXCEPT ![c] = "idle"]
  /\ resp' = [resp EXCEPT ![c] = NoResponse]
  /\ allStats' = [allStats EXCEPT ![c] = EmptyMap]
  /\ ch' = [ch EXCEPT ![c] = {}]
  /\ entry' = [entry EXCEPT ![c] = NoEntry]
  /\ outcome' = [outcome EXCEPT ![c] = "none"]
  /\ UNCHANGED <<exporter, pending, describe, crashed, lastProduced>>

(***************************************************************************)
(* Describe, step by step.  It takes no lock.                              *)
(***************************************************************************)
\* ch <- c.up.Desc(); ch <- c.totalScrapes.Desc(); ch <- c.jsonParseFailures.Desc()
\* and the range over c.gauges begins.
DescribeFixed(d) ==
  /\ ~crashed
  /\ pc[d] = "idle"
  /\ pc' = [pc EXCEPT ![d] = "range"]
  /\ UNCHANGED <<exporter, mutex, locals, describe, crashed, lastProduced>>

\* for _, g := range c.gauges { g.Describe(ch) } ends, and Describe returns.
DescribeRange(d) ==
  /\ ~crashed
  /\ pc[d] = "range"
  /\ pc' = [pc EXCEPT ![d] = "idle"]
  /\ overlap' = [overlap EXCEPT ![d] = FALSE]
  /\ UNCHANGED <<exporter, mutex, locals, crashed, lastProduced>>

\* The Go runtime may detect the race of a map write with a map iteration and
\* abort: "fatal error: concurrent map iteration and map write".
Fatal(d) ==
  /\ ~crashed
  /\ pc[d] = "range"
  /\ overlap[d]
  /\ crashed' = TRUE
  /\ UNCHANGED <<exporter, mutex, pc, locals, describe, lastProduced>>

Next ==
  \/ \E c \in Collectors : CollectLock(c)
  \/ \E c \in Collectors : CollectGetError(c)
  \/ \E c \in Collectors : CollectGetOk(c)
  \/ \E c \in Collectors : CollectReadError(c)
  \/ \E c \in Collectors : CollectReadOk(c)
  \/ \E c \in Collectors : CollectUnmarshalError(c)
  \/ \E c \in Collectors : CollectUnmarshalOk(c)
  \/ \E c \in Collectors : CollectAddGauge(c)
  \/ \E c \in Collectors : CollectReport(c)
  \/ \E c \in Collectors : CollectDeferred(c)
  \/ \E c \in Collectors : CollectUnlock(c)
  \/ \E d \in Describers : DescribeFixed(d)
  \/ \E d \in Describers : DescribeRange(d)
  \/ \E d \in Describers : Fatal(d)

Spec == Init /\ [][Next]_vars

(***************************************************************************)
(* Properties.                                                             *)
(***************************************************************************)
\* A Collect call is about to return: its deferred sends are done and only
\* the unlock is left, so the exporter reads as it does when the call returns.
Returning(c) == pc[c] = "unlock"

Failed(c) == outcome[c] \in {"transport", "read", "json"}

\* The three fixed metrics as sent by a call that returns now.
FixedMetrics ==
  { Fixed("up", up), Fixed("total_scrapes", totalScrapes),
    Fixed("json_parse_failures", jsonParseFailures) }

\* The registry metrics a call has sent.
Emitted(c) == {m \in ch[c] : ~m.fixed}

\* One of the traversals of a decoded document, and the set of its calls.
SomeWalk(m) == CHOOSE w \in extractJSON("", <<>>, m) : TRUE
CallsOf(w) == {w[i] : i \in DOMAIN w}

\* The registry after the calls of w on g.
RECURSIVE ApplyCalls(_, _)
ApplyCalls(g, w) ==
  IF w = <<>> THEN g ELSE ApplyCalls(addGauge(g, Head(w).name, Head(w).value), Tail(w))

\* ---------------------------------------------------------------------------
\* C1: when the body was fetched but json.Unmarshal fails, Collect returns
\* with up at 0 and json_parse_failures one higher than before the call.
C1_DecodeFailureCounted ==
  \A c \in Collectors :
    (Returning(c) /\ outcome[c] = "json")
      => /\ up = 0
         /\ jsonParseFailures = entry[c].jsonParseFailures + 1

\* ---------------------------------------------------------------------------
\* C2: when the HTTP GET fails, Collect returns with up at 0 (and sent as 0),
\* json_parse_failures unchanged, total_scrapes one higher and the registry
\* map as it was before the call.
C2_TransportError ==
  \A c \in Collectors :
    (Returning(c) /\ outcome[c] = "transport")
      => /\ up = 0
         /\ Fixed("up", 0) \in ch[c]
         /\ jsonParseFailures = entry[c].jsonParseFailures
         /\ totalScrapes = entry[c].totalScrapes + 1
         /\ gauges = entry[c].gauges

\* A transport error after a successful scrape: up was 1 and the registry had
\* entries when the call started.
C2_Witness ==
  \E c \in Collectors :
    /\ Returning(c) /\ outcome[c] = "transport"
    /\ entry[c].up = 1
    /\ entry[c].gauges # NoGauges

InCollect(c) == pc[c] # "idle"

Quiescent == \A c \in Collectors : pc[c] # "extract"

C5_RegistryIsHistory ==
  Quiescent =>
    /\ DOMAIN gauges = DOMAIN lastProduced
    /\ \A n \in DOMAIN gauges : gauges[n] \in lastProduced[n]

C5_NeverShrinks == [][DOMAIN gauges \subseteq DOMAIN gauges']_vars

C5_Registry == []C5_RegistryIsHistory /\ C5_NeverShrinks

\* A successful scrape returns having overwritten one entry and left another,
\* which its document lacks, in place.
C5_Witness ==
  \E c \in Collectors :
    /\ Returning(c) /\ outcome[c] = "ok"
    /\ \E n \in DOMAIN entry[c].gauges :
         /\ n \notin DOMAIN Produced(SomeWalk(allStats[c]))
         /\ gauges[n] = entry[c].gauges[n]
    /\ \E n \in DOMAIN entry[c].gauges : gauges[n] # entry[c].gauges[n]

(***************************************************************************)
(* Properties of the flattening, stated of the document a successful       *)
(* Collect has decoded.                                                    *)
(***************************************************************************)
RECURSIVE SumOver(_, _)
SumOver(f, S) ==
  IF S = {} THEN 0 ELSE LET e == CHOOSE e \in S : TRUE IN f[e] + SumOver(f, S \ {e})

\* The leaves of v: its numbers and booleans, at any depth of mappings and
\* arrays.
RECURSIVE NumLeaves(_)
NumLeaves(v) ==
  CASE v.kind \in {"num", "bool"} -> 1
    [] v.kind = "obj" -> SumOver([k \in DOMAIN v.m |-> NumLeaves(v.m[k])], DOMAIN v.m)
    [] v.kind = "arr" -> SumOver([i \in DOMAIN v.a |-> NumLeaves(v.a[i])], DOMAIN v.a)
    [] OTHER -> 0

\* v holds numbers and booleans only, under its mappings and arrays.
RECURSIVE ScalarLeavesOnly(_)
ScalarLeavesOnly(v) ==
  CASE v.kind \in {"num", "bool"} -> TRUE
    [] v.kind = "obj" -> \A k \in DOMAIN v.m : ScalarLeavesOnly(v.m[k])
    [] v.kind = "arr" -> \A i \in DOMAIN v.a : ScalarLeavesOnly(v.a[i])
    [] OTHER -> FALSE

\* No two leaves of the document get the same registry name.
DistinctNames(m) ==
  LET w == SomeWalk(m) IN
  \A i, j \in DOMAIN w : ToLower(w[i].name) = ToLower(w[j].name) => i = j

\* No two leaves of the document with different values get the same name.
NoValueClash(m) ==
  LET w == SomeWalk(m) IN
  \A i, j \in DOMAIN w : ToLower(w[i].name) = ToLower(w[j].name) => w[i].value = w[j].value

\* A successful Collect that started on an empty registry has made all its
\* addGauge calls: the registry is the flattening of its document.
Flattened(c) ==
  /\ Returning(c) /\ outcome[c] = "ok"
  /\ entry[c].gauges = NoGauges

\* ---------------------------------------------------------------------------
\* C6 as stated: a document whose leaves are all numbers or booleans,
\* flattened into an empty registry, yields as many entries as it has leaves.
C6_EntryPerLeaf ==
  \A c \in Collectors :
    (Flattened(c) /\ ScalarLeavesOnly(JObj(allStats[c])))
      => Cardinality(DOMAIN gauges) = NumLeaves(JObj(allStats[c]))

\* C6 amended: the same, for documents no two leaves of which get the same
\* name.
C6_EntryPerDistinctLeaf ==
  \A c \in Collectors :
    (Flattened(c) /\ ScalarLeavesOnly(JObj(allStats[c])) /\ DistinctNames(allStats[c]))
      => Cardinality(DOMAIN gauges) = NumLeaves(JObj(allStats[c]))

\* A document with a mapping, a number and a boolean in it was flattened.
C6_Witness ==
  \E c \in Collectors :
    /\ Flattened(c) /\ ScalarLeavesOnly(JObj(allStats[c])) /\ DistinctNames(allStats[c])
    /\ NumLeaves(JObj(allStats[c])) >= 2
    /\ \E k \in DOMAIN allStats[c] : allStats[c][k].kind \in {"obj", "arr"}

\* ---------------------------------------------------------------------------
\* C7 as stated: for every document, the registry a flattening into an empty
\* registry has produced is the one every iteration order produces.
C7_OrderIndependent ==
  \A c \in Collectors :
    Flattened(c)
      => \A w \in extractJSON("", <<>>, allStats[c]) : ApplyCalls(NoGauges, w) = gauges

\* C7 amended: the same, for documents in which no two leaves with different
\* values get the same name.
C7_OrderIndependentNoClash ==
  \A c \in Collectors :
    (Flattened(c) /\ NoValueClash(allStats[c]))
      => \A w \in extractJSON("", <<>>, allStats[c]) : ApplyCalls(NoGauges, w) = gauges

\* A document with more than one iteration order was flattened.
C7_Witness ==
  \E c \in Collectors :
    /\ Flattened(c) /\ NoValueClash(allStats[c])
    /\ Cardinality(extractJSON("", <<>>, allStats[c])) >= 2

\* ---------------------------------------------------------------------------
\* C8: a leaf reached through at least one join is named by its path segments
\* joined with "_", lowercased, less one leading underscore.
RECURSIVE JoinPath(_)
JoinPath(path) ==
  IF Len(path) = 1 THEN path[1] ELSE path[1] \o "_" \o JoinPath(Tail(path))

StripOneUnderscore(s) == IF Len(s) >= 1 /\ Head(s) = "_" THEN Tail(s) ELSE s

NameOfPath(path) == StripOneUnderscore(ToLower(JoinPath(path)))

C8_NameIsJoinedPath ==
  \A c \in Collectors :
    pc[c] = "extract" =>
      \A i \in DOMAIN pending[c] :
        Len(pending[c][i].path) >= 2
          => ToLower(pending[c][i].name) = NameOfPath(pending[c][i].path)

\* ---------------------------------------------------------------------------
\* C9: a string at path p yields no metric for p; its metrics are those of
\* flattening its decoded object under p's prefix when it starts with "{", is
\* longer than 2 and decodes, none otherwise; and the metrics of every other
\* path are those of the document without the string.
StringAt(path, metric, str) == [path |-> path, metric |-> metric, s |-> str]

\* The strings of v, each with its path and the prefix the walker has there.
RECURSIVE StringsOf(_, _, _)
StringsOf(metric, path, v) ==
  CASE v.kind = "str" -> {StringAt(path, metric, v.s)}
    [] v.kind = "obj" ->
         UNION { StringsOf(keyMetric(metric, k), Append(path, k), v.m[k]) : k \in DOMAIN v.m }
    [] v.kind = "arr" ->
         UNION { StringsOf(indexMetric(metric, i - 1), Append(path, Itoa(i - 1)), v.a[i])
                 : i \in DOMAIN v.a }
    [] OTHER -> {}

\* v without the value at path: a key is dropped from its mapping, an array
\* element becomes null so that the indices of the others stay.
RECURSIVE Without(_, _, _)
Without(v, path, here) ==
  CASE v.kind = "obj" ->
         JObj([k \in {x \in DOMAIN v.m : Append(here, x) # path} |->
                 Without(v.m[k], path, Append(here, k))])
    [] v.kind = "arr" ->
         JArr([i \in DOMAIN v.a |->
                 IF Append(here, Itoa(i - 1)) = path THEN JNull
                 ELSE Without(v.a[i], path, Append(here, Itoa(i - 1)))])
    [] OTHER -> v

\* The metrics of the object a string holds, flattened under the prefix.
EmbeddedCalls(sp) ==
  IF Len(sp.s) > 2 /\ Head(sp.s) = "{" /\ Unmarshal(sp.s).ok
  THEN CallsOf(CHOOSE w \in extractJSON(sp.metric, sp.path, Unmarshal(sp.s).val) : TRUE)
  ELSE {}

C10_DescribeExcludesWrites == \A d \in Describers : ~overlap[d]

====
